---- MODULE Spec2Model ----
(***************************************************************************)
(* Bento Pro Generator (src/app.py): the convert-button handler of the     *)
(* Streamlit script as a state machine - vision analysis, metadata         *)
(* extraction, prompt composition, image generation and the four S3        *)
(* writes - together with the session flags that guard it.                 *)
(*                                                                         *)
(* Text is modelled as a sequence of tokens.  The fixed English fragments  *)
(* of the prompts are one token each; model responses (analysis text,      *)
(* metadata JSON) are sequences of one-character tokens, so that strip,    *)
(* startswith, split and json.loads are computed and not assumed.          *)
(* The Japanese option labels of the radio widgets are written in romaji:  *)
(*   shiro-haikei = 白背景, kuro-haikei = 黒背景, mokume-table = 木目テーブル, *)
(*   dairiseki = 大理石, washi = 和紙, naname-45do = 斜め45度,             *)
(*   maue-fukan = 真上俯瞰, akarui-studio = 明るいスタジオ,                *)
(*   yawaraka-shizenkou = 柔らか自然光, dramatic = ドラマチック,           *)
(*   hyoujun = 標準, hiroi = 広い, seihoukei(1:1) = 正方形(1:1),           *)
(*   tatenaga(3:4) = 縦長(3:4), yokonaga(4:3) = 横長(4:3),                 *)
(*   shoumen-haichi = 正面配置, naname-haichi = 斜め配置,                  *)
(*   hosei-nashi = 補正なし, youki-yogore-wo-hosei = 容器汚れを補正,       *)
(*   yogore-wo-hosei = 汚れを補正, bento = 弁当.                           *)
(***************************************************************************)
EXTENDS Naturals, Integers, Sequences, FiniteSets, TLC

VARIABLES
    (* the S3 bucket and the process-wide configuration *)
    s3_client,                  \* TRUE when the AWS credentials are set
    store,                      \* bucket: key <<timestamp, file>> -> blob
    now,                        \* the wall clock, in seconds
    (* st.session_state and the widgets of the creation page *)
    processing,
    generation_completed,
    current_uploaded_file,
    selected_history,
    uploaded_file,
    (* the convert handler: position and locals *)
    pc,
    style,
    analyzed_content,
    metadata_dict,
    final_prompt,
    reference_prompt_with_aspect,
    timestamp,
    start_time,
    step1_time,
    step3_start,
    step3_time,
    total_time,
    (* observation of the running or last request *)
    outcome,                    \* "none" | "running" | "completed" | "failed"
    failed_at,                  \* stage the request failed in, "" when none
    calls,                      \* capability calls made, in order
    analysis_response,          \* response.text of the vision call
    metadata_response,          \* metadata_response.text of the extraction call
    sent_prompt,                \* the instruction passed to the generation call
    attempted,                  \* sub-items whose write was attempted
    wrote,                      \* sub-items written to the bucket
    unreported,                 \* sub-items whose write failed with no message
    errors,                     \* number of st.error messages of the request
    requests,                   \* number of requests started in the session
    upload_id,                  \* number of uploads made in the session
    request_upload,             \* upload the running or last request is for
    completed_for,              \* uploads with a completed generation, as a bag
    (* inputs and results of the pure functions checked on their own *)
    fn_in,
    fn_out,
    (* the history pages and a second session *)
    other_selected,             \* selected_history of the second session
    pages,                      \* per session: query parameter edit, the
                                \* metadata the running script loaded, the
                                \* handler the run is in and its form values
    save_log,                   \* metadata saves of the history pages, in order
    older_records,              \* records of the bucket older than every id of
                                \* the model, as a count
    history_list,               \* the last result of list_history_from_s3
    (* generate_thumbnails.py *)
    script,
    (* the persistence stage of a request of the second session *)
    other_request

vars == <<s3_client, store, now, processing, generation_completed,
          current_uploaded_file, selected_history, uploaded_file, pc, style,
          analyzed_content, metadata_dict, final_prompt,
          reference_prompt_with_aspect, timestamp, start_time, step1_time,
          step3_start, step3_time, total_time, outcome, failed_at, calls,
          analysis_response, metadata_response, sent_prompt, attempted, wrote, unreported, errors, requests, upload_id,
          request_upload, completed_for, fn_in, fn_out,
          other_selected, pages, save_log, older_records, history_list,
          script, other_request>>

(***************************************************************************)
(* Bounds                                                                  *)
(***************************************************************************)
MaxClock == 2          \* the clock runs from 1 to MaxClock
MaxUploads == 3        \* uploads per session
MaxStyle == 1          \* option index range of the style rows tried in a request
MaxRequests == 2       \* requests per session in SpecSession

None == "None"

(***************************************************************************)
(* Text helpers                                                            *)
(***************************************************************************)
Range(s) == {s[i] : i \in 1..Len(s)}

Whitespace == {" ", "\n"}

\* str.lstrip()
RECURSIVE LStrip(_)
LStrip(s) ==
    IF s # <<>> /\ Head(s) \in Whitespace THEN LStrip(Tail(s)) ELSE s

\* str.rstrip()
RECURSIVE RStrip(_)
RStrip(s) ==
    IF s # <<>> /\ s[Len(s)] \in Whitespace
    THEN RStrip(SubSeq(s, 1, Len(s) - 1)) ELSE s

\* str.strip()
Strip(s) == RStrip(LStrip(s))

\* str.startswith(p)
StartsWith(s, p) == Len(s) >= Len(p) /\ SubSeq(s, 1, Len(p)) = p

\* s[n:]
DropFirst(s, n) == SubSeq(s, n + 1, Len(s))

\* first index i >= from with sep at s[i..], 0 when there is none
RECURSIVE FindFrom(_, _, _)
FindFrom(s, sep, from) ==
    IF from + Len(sep) - 1 > Len(s) THEN 0
    ELSE IF SubSeq(s, from, from + Len(sep) - 1) = sep THEN from
    ELSE FindFrom(s, sep, from + 1)

\* str.split(sep): the pieces between non-overlapping occurrences, left to right
RECURSIVE Split(_, _)
Split(s, sep) ==
    LET i == FindFrom(s, sep, 1) IN
    IF i = 0 THEN <<s>>
    ELSE <<SubSeq(s, 1, i - 1)>> \o Split(DropFirst(s, i + Len(sep) - 1), sep)

\* first position of token t in s, 0 when absent (str.find on a fragment)
RECURSIVE IndexFrom(_, _, _)
IndexFrom(s, t, from) ==
    IF from > Len(s) THEN 0
    ELSE IF s[from] = t THEN from
    ELSE IndexFrom(s, t, from + 1)

Index(s, t) == IndexFrom(s, t, 1)

(***************************************************************************)
(* Style Catalog: the radio options and the prompt maps                    *)
(***************************************************************************)
background_options == <<"shiro-haikei", "kuro-haikei", "mokume-table", "dairiseki", "washi">>
angle_options == <<"naname-45do", "maue-fukan">>
lighting_options == <<"akarui-studio", "yawaraka-shizenkou", "dramatic">>
margin_options == <<"hyoujun", "hiroi">>
aspect_ratio_options == <<"seihoukei(1:1)", "tatenaga(3:4)", "yokonaga(4:3)">>
rotation_options == <<"shoumen-haichi", "naname-haichi">>
container_clean_options == <<"hosei-nashi", "youki-yogore-wo-hosei">>

\* every selection the seven radio rows can produce
StyleSelections ==
    [background : Range(background_options),
     angle : Range(angle_options),
     lighting : Range(lighting_options),
     margin : Range(margin_options),
     aspect_ratio : Range(aspect_ratio_options),
     rotation : Range(rotation_options),
     container_clean : Range(container_clean_options)]

background_map ==
    ("shiro-haikei" :> "clean white background") @@
    ("kuro-haikei" :> "matte black background") @@
    ("mokume-table" :> "natural wood grain table surface") @@
    ("dairiseki" :> "elegant marble table surface") @@
    ("washi" :> "traditional Japanese washi paper background")

angle_map ==
    ("naname-45do" :> "The camera is positioned at a moderate height above the table, looking down at the bento box at approximately 30-40 degrees from horizontal.") @@
    ("maue-fukan" :> "The camera is positioned DIRECTLY overhead at 90 degrees, perfectly perpendicular to the table surface. NO angle whatsoever.")

OrientationHeader == "**[Crucial: Orientation & Alignment]**"

rotation_map ==
    ("shoumen-haichi" :>
        [rule |-> <<OrientationHeader, "\n* The bento box is NOT rotated diagonally on the table surface. NO rotation whatsoever.">>,
         description |-> "The box faces the camera squarely."]) @@
    ("naname-haichi" :>
        [rule |-> <<OrientationHeader, "\n* The bento box IS rotated diagonally on the table surface, approximately 45 degrees CLOCKWISE.">>,
         description |-> "Creates dynamic diagonal depth."])

lighting_map ==
    ("akarui-studio" :> "Bright, even studio lighting (high-key). Soft shadows.") @@
    ("yawaraka-shizenkou" :> "Soft, natural window light. Gentle shadows.") @@
    ("dramatic" :> "Dramatic side lighting with strong shadows.")

margin_map ==
    ("hyoujun" :> "With some negative space around the bento box. The entire bento box must fit completely within the frame with NO edges cut off.") @@
    ("hiroi" :> "Ample negative space. The entire bento box must fit completely within the frame with NO edges cut off.")

OutputFormatHeader == "**[Output Format]**"

\* aspect_ratio_prompt_map keyed by the labels without the ratio
aspect_ratio_prompt_map_ShortKeys ==
    ("seihoukei" :> <<OutputFormatHeader, "\nGenerate the output image in SQUARE format with 1:1 aspect ratio (width equals height).">>) @@
    ("tatenaga" :> <<OutputFormatHeader, "\nGenerate the output image in PORTRAIT/VERTICAL format with 3:4 aspect ratio (width:height = 3:4, taller than wide).">>) @@
    ("yokonaga" :> <<OutputFormatHeader, "\nGenerate the output image in LANDSCAPE/HORIZONTAL format with 4:3 aspect ratio (width:height = 4:3, wider than tall).">>)

aspect_ratio_prompt_map ==
    ("seihoukei(1:1)" :> <<OutputFormatHeader, "\nGenerate the output image in SQUARE format with 1:1 aspect ratio (width equals height).">>) @@
    ("tatenaga(3:4)" :> <<OutputFormatHeader, "\nGenerate the output image in PORTRAIT/VERTICAL format with 3:4 aspect ratio (width:height = 3:4, taller than wide).">>) @@
    ("yokonaga(4:3)" :> <<OutputFormatHeader, "\nGenerate the output image in LANDSCAPE/HORIZONTAL format with 4:3 aspect ratio (width:height = 4:3, wider than tall).">>)

\* map[label] raises KeyError unless the label is a key of the map
Found(map, label) == label \in DOMAIN map

(***************************************************************************)
(* Prompt Composer                                                         *)
(***************************************************************************)
CameraHeader == "**[Camera Angle & Perspective]**"
EnvironmentHeader == "**[Environment & Composition]**"
LightingHeader == "**[Lighting & Style]**"
ContentsHeader == "**[Contents Description]**"
Para == "\n\n"

camera_setup(sel) == <<CameraHeader, "\n* ", angle_map[sel.angle]>>

environment(sel) ==
    <<EnvironmentHeader, "\n* The bento box is placed on a ",
      background_map[sel.background], ".\n* ", margin_map[sel.margin]>>

lighting_section(sel) ==
    <<LightingHeader, "\n* ", lighting_map[sel.lighting],
      "\n* NO steam, NO vapor. 8k resolution, highly detailed.">>

content_part(content) == <<ContentsHeader, "\n">> \o content

\* the informational prompt
FinalPrompt(sel, content) ==
    <<"Professional commercial food photography.", Para>>
    \o rotation_map[sel.rotation].rule \o <<Para>>
    \o camera_setup(sel) \o <<Para>>
    \o environment(sel) \o <<Para>>
    \o lighting_section(sel) \o <<Para>>
    \o content_part(content)

CleaningHeader == "\nCONTAINER CLEANING:"

CleaningInstruction ==
    <<CleaningHeader,
      "\n- Clean any sauce stains, oil marks, or liquid spills on the bento box container surfaces (walls, edges, exterior)",
      "\n- The container should look pristine and clean",
      "\n- CRITICAL: Do NOT alter, change, or modify the food contents inside the compartments",
      "\n- Only clean the container itself, not the food\n">>

\* the label the handler compares the container_clean selection with
CleanRequestedLabel == "yogore-wo-hosei"

container_clean_instruction(sel) ==
    IF sel.container_clean = CleanRequestedLabel THEN CleaningInstruction ELSE <<>>

ConstraintsHeader == "**CRITICAL CONSTRAINTS - MUST FOLLOW EXACTLY:**"
ConstraintContainer == "\n1. Keep the EXACT container type, material, color, and shape shown in the input image."
ConstraintFood == "\n2. Keep the EXACT food arrangement and portion sizes shown in the input image. Do NOT add extra food."

\* reference_prompt with the contents section moved ahead of the style sections
reference_prompt_ContentsFirst(sel, content) ==
    <<"\nRefine this specific image into a professional commercial food photography style.", Para,
      ConstraintsHeader, ConstraintContainer, ConstraintFood, Para>>
    \o content_part(content) \o <<Para>>
    \o rotation_map[sel.rotation].rule \o <<Para>>
    \o camera_setup(sel) \o <<Para>>
    \o environment(sel) \o <<Para>>
    \o lighting_section(sel) \o <<Para>>
    \o container_clean_instruction(sel) \o <<"\n">>

reference_prompt(sel, content) ==
    <<"\nRefine this specific image into a professional commercial food photography style.", Para,
      ConstraintsHeader, ConstraintContainer, ConstraintFood, Para>>
    \o rotation_map[sel.rotation].rule \o <<Para>>
    \o camera_setup(sel) \o <<Para>>
    \o environment(sel) \o <<Para>>
    \o lighting_section(sel) \o <<Para>>
    \o container_clean_instruction(sel) \o <<Para>>
    \o content_part(content) \o <<"\n">>

ReferencePromptWithAspect(sel, content) ==
    reference_prompt(sel, content) \o <<Para>> \o aspect_ratio_prompt_map[sel.aspect_ratio]

\* the lookups made while the two prompts are built
ComposeLookups(sel) ==
    <<Found(rotation_map, sel.rotation), Found(angle_map, sel.angle),
      Found(background_map, sel.background), Found(margin_map, sel.margin),
      Found(lighting_map, sel.lighting),
      Found(aspect_ratio_prompt_map, sel.aspect_ratio)>>

\* Step 2 and the prompt part of Step 3; a failed lookup raises
Compose(sel, content) ==
    IF FALSE \in Range(ComposeLookups(sel))
    THEN [ok |-> FALSE, final_prompt |-> <<>>, reference_prompt_with_aspect |-> <<>>]
    ELSE [ok |-> TRUE,
          final_prompt |-> FinalPrompt(sel, content),
          reference_prompt_with_aspect |-> ReferencePromptWithAspect(sel, content)]

(***************************************************************************)
(* json.loads on the grammar the metadata responses use: objects, arrays   *)
(* and strings without escapes, with insignificant whitespace.  A parse    *)
(* result is [ok, val, next]; a value is [t |-> "str" | "arr" | "obj", v]. *)
(***************************************************************************)
Q == "\""

ParseFail == [ok |-> FALSE, val |-> None, next |-> 0]

RECURSIVE SkipWs(_, _)
SkipWs(s, i) ==
    IF i <= Len(s) /\ s[i] \in Whitespace THEN SkipWs(s, i + 1) ELSE i

\* s[i] is the opening quote; a raw newline inside a string is rejected
RECURSIVE ScanString(_, _)
ScanString(s, i) ==
    IF i > Len(s) \/ s[i] = "\n" THEN 0
    ELSE IF s[i] = Q THEN i
    ELSE ScanString(s, i + 1)

ParseString(s, i) ==
    LET close == ScanString(s, i + 1) IN
    IF close = 0 THEN ParseFail
    ELSE [ok |-> TRUE,
          val |-> [t |-> "str", v |-> SubSeq(s, i + 1, close - 1)],
          next |-> close + 1]

RECURSIVE ParseValue(_, _)
RECURSIVE ParseElements(_, _, _)
RECURSIVE ParseMembers(_, _, _)

\* i is at the start of an element; acc holds the elements read so far
ParseElements(s, i, acc) ==
    LET e == ParseValue(s, i) IN
    IF ~e.ok THEN ParseFail
    ELSE LET j == SkipWs(s, e.next) IN
         IF j > Len(s) THEN ParseFail
         ELSE IF s[j] = "]"
              THEN [ok |-> TRUE, val |-> [t |-> "arr", v |-> Append(acc, e.val)], next |-> j + 1]
         ELSE IF s[j] = ","
              THEN ParseElements(s, SkipWs(s, j + 1), Append(acc, e.val))
         ELSE ParseFail

ParseArray(s, i) ==
    LET j == SkipWs(s, i + 1) IN
    IF j > Len(s) THEN ParseFail
    ELSE IF s[j] = "]" THEN [ok |-> TRUE, val |-> [t |-> "arr", v |-> <<>>], next |-> j + 1]
    ELSE ParseElements(s, j, <<>>)

\* i is at the start of a member; acc maps the keys read so far (a later
\* duplicate key replaces the earlier one)
ParseMembers(s, i, acc) ==
    IF i > Len(s) \/ s[i] # Q THEN ParseFail
    ELSE LET k == ParseString(s, i) IN
         IF ~k.ok THEN ParseFail
         ELSE LET c == SkipWs(s, k.next) IN
              IF c > Len(s) \/ s[c] # ":" THEN ParseFail
              ELSE LET e == ParseValue(s, SkipWs(s, c + 1)) IN
                   IF ~e.ok THEN ParseFail
                   ELSE LET j == SkipWs(s, e.next)
                            acc2 == (k.val.v :> e.val) @@ acc
                        IN IF j > Len(s) THEN ParseFail
                           ELSE IF s[j] = "}"
                                THEN [ok |-> TRUE, val |-> [t |-> "obj", v |-> acc2], next |-> j + 1]
                           ELSE IF s[j] = ","
                                THEN ParseMembers(s, SkipWs(s, j + 1), acc2)
                           ELSE ParseFail

EmptyDict == [k \in {} |-> None]

ParseObject(s, i) ==
    LET j == SkipWs(s, i + 1) IN
    IF j > Len(s) THEN ParseFail
    ELSE IF s[j] = "}" THEN [ok |-> TRUE, val |-> [t |-> "obj", v |-> EmptyDict], next |-> j + 1]
    ELSE ParseMembers(s, j, EmptyDict)

ParseValue(s, i) ==
    IF i > Len(s) THEN ParseFail
    ELSE IF s[i] = "{" THEN ParseObject(s, i)
    ELSE IF s[i] = "[" THEN ParseArray(s, i)
    ELSE IF s[i] = Q THEN ParseString(s, i)
    ELSE ParseFail

\* json.loads(s): one value, then nothing but whitespace
JsonLoads(s) ==
    LET r == ParseValue(s, SkipWs(s, 1)) IN
    IF r.ok /\ SkipWs(s, r.next) > Len(s)
    THEN [ok |-> TRUE, val |-> r.val]
    ELSE [ok |-> FALSE, val |-> None]

(***************************************************************************)
(* Vision Analyzer: metadata parsing                                       *)
(***************************************************************************)
\* the character U+0060, which a string of this notation cannot hold
Backtick == "<backtick>"

Fence == <<Backtick, Backtick, Backtick>>
JsonTag == <<"j", "s", "o", "n">>

\* strip the Markdown code block, then parse
ParseMetadata(response_text) ==
    LET text0 == Strip(response_text)
        text1 == IF StartsWith(text0, Fence)
                 THEN LET inner == Split(text0, Fence)[2] IN
                      IF StartsWith(inner, JsonTag) THEN DropFirst(inner, 4) ELSE inner
                 ELSE text0
    IN JsonLoads(Strip(text1))

TitleKey == <<"t", "i", "t", "l", "e">>
DescriptionKey == <<"d", "e", "s", "c", "r", "i", "p", "t", "i", "o", "n">>
TagsKey == <<"t", "a", "g", "s">>

\* HasTitle with dict.get in the success message: a missing title passes
HasTitle_Lenient(parsed) == parsed.ok /\ parsed.val.t = "obj"

\* metadata_dict['title'] of the success message: TypeError unless a dict,
\* KeyError without the key
HasTitle(parsed) ==
    parsed.ok /\ parsed.val.t = "obj" /\ TitleKey \in DOMAIN parsed.val.v

\* dict.get(key, default)
Get(dict, key, default) == IF key \in DOMAIN dict THEN dict[key] ELSE default

DefaultTitle == [t |-> "str", v |-> <<"b", "e", "n", "t", "o">>]
DefaultDescription == [t |-> "str", v |-> <<>>]
DefaultTags == [t |-> "arr", v |-> <<>>]

(***************************************************************************)
(* Responses the capabilities can return                                   *)
(***************************************************************************)
Str(chars) == <<Q>> \o chars \o <<Q>>

RECURSIVE Join(_, _)
Join(parts, sep) ==
    IF parts = <<>> THEN <<>>
    ELSE IF Len(parts) = 1 THEN parts[1]
    ELSE parts[1] \o sep \o Join(Tail(parts), sep)

ArrayText(elems) == <<"[">> \o Join(elems, <<",", " ">>) \o <<"]">>

Member(key, value_text) == Str(key) \o <<":", " ">> \o value_text

\* layout "compact" is one line, "pretty" is the layout the instruction shows
ObjectText(members, layout) ==
    IF layout = "compact"
    THEN <<"{">> \o Join(members, <<",">>) \o <<"}">>
    ELSE <<"{", "\n", " ", " ">> \o Join(members, <<",", "\n", " ", " ">>) \o <<"\n", "}">>

\* a fenced code block around text, tag after the opening fence
Wrap(text, tag) == Fence \o tag \o <<"\n">> \o text \o <<"\n">> \o Fence

OtherTag == <<"J", "S", "O", "N">>
FenceTags == {<<>>, JsonTag, OtherTag}

TitleA == Member(TitleKey, Str(<<"a">>))
TitleFence == Member(TitleKey, Str(<<"a">> \o Fence \o <<"b">>))
DescriptionD == Member(DescriptionKey, Str(<<"d">>))
TagsEmpty == Member(TagsKey, ArrayText(<<>>))
TagsX == Member(TagsKey, ArrayText(<<Str(<<"x">>)>>))
TagsXY == Member(TagsKey, ArrayText(<<Str(<<"x">>), Str(<<"y">>)>>))

\* each option is the list of members it contributes: none or one
TitleOptions == {<<>>, <<TitleA>>, <<TitleFence>>}
DescriptionOptions == {<<>>, <<DescriptionD>>}
TagsOptions == {<<>>, <<TagsEmpty>>, <<TagsX>>, <<TagsXY>>}
Layouts == {"compact", "pretty"}

JsonObjectTexts ==
    {ObjectText(t \o d \o g, l) :
        t \in TitleOptions, d \in DescriptionOptions, g \in TagsOptions, l \in Layouts}

NotJson == <<"s", "o", "r", "r", "y">>

\* what the extraction call returns within a request
MetadataResponses ==
    {Wrap(ObjectText(<<TitleA, DescriptionD, TagsX>>, "pretty"), JsonTag),
     ObjectText(<<DescriptionD, TagsX>>, "compact"),
     ObjectText(<<TitleA, TagsX>>, "compact"),
     Wrap(ObjectText(<<TitleA, DescriptionD>>, "compact"), <<>>),
     NotJson}

\* what the vision call returns within a request
AnalysisResponses ==
    {<<>>, <<" ", "\n">>, <<" ", "r", "i", "c", "e", "\n">>}

AnalysisTexts == {Strip(r) : r \in AnalysisResponses}

FileNames == {"a.jpg", "b.png"}

\* the i-th option of a radio row, wrapping round
Option(options, i) == options[((i - 1) % Len(options)) + 1]

StyleRow(i, clean) ==
    [background |-> Option(background_options, i),
     angle |-> Option(angle_options, i),
     lighting |-> Option(lighting_options, i),
     margin |-> Option(margin_options, i),
     aspect_ratio |-> Option(aspect_ratio_options, i),
     rotation |-> Option(rotation_options, i),
     container_clean |-> clean]

RequestStyles ==
    {StyleRow(i, c) : i \in 1..MaxStyle, c \in Range(container_clean_options)}

(***************************************************************************)
(* Record Store                                                            *)
(***************************************************************************)
Files == {"original.png", "generated.png", "thumbnail.png", "metadata.json"}

\* the order in which the handler writes them
WriteOrder == <<"original.png", "generated.png", "thumbnail.png", "metadata.json">>

EmptyStore == [k \in {} |-> None]

Key(ts, file) == <<ts, file>>

\* upload_fileobj / put_object
Put(bucket, key, blob) == (key :> blob) @@ bucket

\* the result of one write: without credentials it is skipped; otherwise it
\* succeeds, raises ClientError, or raises some other exception
WriteOutcomes ==
    IF s3_client THEN {"ok", "ClientError", "Exception"} ELSE {"no_client"}

(***************************************************************************)
(* The session after the script's first run                                *)
(***************************************************************************)
\* datetime.now().strftime("%Y-%m-%d_%H-%M-%S"): an id is a string of digits
\* and dashes, here the minute and second fields (the date and the hour do
\* not change within MaxClock seconds).  A character is its digit; the dash
\* sorts before every digit.
ClockEpoch == 8        \* the second of the minute at which the clock reads 0

Dash == 0 - 1

TwoDigits(n) == <<n \div 10, n % 10>>

\* the fields without zero padding
Strftime_Unpadded(t) ==
    LET digits(n) == IF n < 10 THEN <<n>> ELSE TwoDigits(n)
        s == ClockEpoch + t
    IN digits((s \div 60) % 60) \o <<Dash>> \o digits(s % 60)

\* the format without its seconds field
Strftime_NoSeconds(t) ==
    LET s == ClockEpoch + t
    IN TwoDigits((s \div 60) % 60)

Strftime(t) ==
    LET s == ClockEpoch + t
    IN TwoDigits((s \div 60) % 60) \o <<Dash>> \o TwoDigits(s % 60)

\* Python's order of strings
RECURSIVE StrLess(_, _)
StrLess(a, b) ==
    IF b = <<>> THEN FALSE
    ELSE IF a = <<>> THEN TRUE
    ELSE IF a[1] # b[1] THEN a[1] < b[1]
    ELSE StrLess(Tail(a), Tail(b))

NoTimestamp == <<>>

NoHistory == <<>>

NoStyle ==
    [background |-> None, angle |-> None, lighting |-> None, margin |-> None,
     aspect_ratio |-> None, rotation |-> None, container_clean |-> None]

NoResponse == [made |-> FALSE, ok |-> FALSE, text |-> <<>>]

\* the two browser sessions: the one that runs requests, and another one
Main == "main"
Other == "other"
Sessions == {Main, Other}

\* get_metadata_from_s3 returned None / a dict
NotLoaded == [found |-> FALSE]
Loaded(metadata) == [found |-> TRUE, data |-> metadata]

\* the widgets of edit_form
NoForm == [title |-> <<>>, description |-> <<>>, tags_str |-> <<>>, favorite |-> FALSE]

\* a page that shows no history item
BlankPage == [edit |-> FALSE, metadata |-> NotLoaded, mode |-> "idle", form |-> NoForm]

NoSaves == [saves |-> 0, last |-> <<>>]

NotListed == [made |-> FALSE]

\* generate_thumbnails.py not started
NoStats == [success |-> 0, skip |-> 0, error |-> 0]

ScriptOff ==
    [pc |-> "off", confirm |-> "", folders |-> <<>>, stats |-> NoStats,
     runs |-> 0, events |-> <<>>, previous_clean |-> FALSE]

\* the second session has no request in its persistence stage
NoRequest ==
    [pc |-> "off", timestamp |-> NoTimestamp, taken_at |-> 0, of |-> None,
     wrote |-> {}, outcome |-> "none"]

locals == <<style, analyzed_content, metadata_dict, final_prompt,
            reference_prompt_with_aspect, timestamp, start_time, step1_time,
            step3_start, step3_time, total_time>>
observed == <<calls, analysis_response, metadata_response, sent_prompt,
              attempted, wrote, unreported>>
uploads == <<requests, upload_id, request_upload, completed_for>>
widgets == <<current_uploaded_file, uploaded_file>>
fn == <<fn_in, fn_out>>
browsing == <<other_selected, pages, save_log, older_records, history_list>>

\* a bucket without objects
EmptyBucket ==
    /\ store = EmptyStore
    /\ older_records = 0

InitSession ==
    /\ now = 1
    /\ processing = FALSE
    /\ generation_completed = FALSE
    /\ current_uploaded_file = None
    /\ selected_history = NoHistory
    /\ uploaded_file = None
    /\ pc = "idle"
    /\ outcome = "none"
    /\ failed_at = ""
    /\ errors = 0
    /\ requests = 0
    /\ upload_id = 0
    /\ request_upload = 0
    /\ completed_for = [u \in 1..MaxUploads |-> 0]
    /\ style = NoStyle
    /\ analyzed_content = <<>>
    /\ metadata_dict = EmptyDict
    /\ final_prompt = <<>>
    /\ reference_prompt_with_aspect = <<>>
    /\ timestamp = NoTimestamp
    /\ start_time = 0
    /\ step1_time = 0
    /\ step3_start = 0
    /\ step3_time = 0
    /\ total_time = 0
    /\ calls = <<>>
    /\ analysis_response = NoResponse
    /\ metadata_response = NoResponse
    /\ sent_prompt = <<>>
    /\ attempted = {}
    /\ wrote = {}
    /\ unreported = {}
    /\ other_selected = NoHistory
    /\ pages = [s \in Sessions |-> BlankPage]
    /\ save_log = NoSaves
    /\ history_list = NotListed
    /\ script = ScriptOff
    /\ other_request = NoRequest

Init ==
    /\ s3_client \in BOOLEAN
    /\ EmptyBucket
    /\ InitSession
    /\ fn_in = None
    /\ fn_out = None

(***************************************************************************)
(* The creation page                                                       *)
(***************************************************************************)
\* the file uploader receives a file; the script reruns
Upload(name) ==
    /\ pc = "idle"
    /\ selected_history = NoHistory
    /\ upload_id < MaxUploads
    /\ uploaded_file' = name
    /\ upload_id' = upload_id + 1
    /\ IF current_uploaded_file # name
       THEN /\ current_uploaded_file' = name
            /\ generation_completed' = FALSE
       ELSE UNCHANGED <<current_uploaded_file, generation_completed>>
    /\ UNCHANGED <<s3_client, store, now, processing, selected_history, pc,
                   locals, outcome, failed_at, observed, errors, requests,
                   request_upload, completed_for, fn,
                   browsing, script, other_request>>

\* get_metadata_from_s3(f"{ts}/metadata.json")
get_metadata_from_s3(bucket, ts) ==
    IF s3_client /\ Key(ts, "metadata.json") \in DOMAIN bucket
    THEN Loaded(bucket[Key(ts, "metadata.json")])
    ELSE NotLoaded

\* what a script run shows for the selected history item: the creation page
\* without one, the detail page (or the edit page) with the metadata it loads
Render(bucket, ts, edit) ==
    IF ts = NoHistory THEN BlankPage
    ELSE [edit |-> edit, metadata |-> get_metadata_from_s3(bucket, ts),
          mode |-> "idle", form |-> NoForm]

\* sidebar button: back to the creation page; whether the uploader of a page
\* that was not rendered still holds its file is the framework's choice
NewImage ==
    /\ pc = "idle"
    /\ selected_history' = NoHistory
    /\ uploaded_file' \in IF selected_history # NoHistory
                          THEN {None, uploaded_file} ELSE {uploaded_file}
    /\ pages' = [pages EXCEPT ![Main] = BlankPage]
    /\ UNCHANGED <<s3_client, store, now, processing, generation_completed,
                   current_uploaded_file, pc, locals, outcome, failed_at,
                   observed, errors, uploads, fn, other_selected,
                   save_log, older_records, history_list, script, other_request>>

\* Failed without the reset of the processing flag
Failed_KeepsLock(stage) ==
    /\ processing' = processing
    /\ outcome' = "failed"
    /\ failed_at' = stage
    /\ errors' = errors + 1
    /\ pc' = "done"

\* the except branch and the no-candidates branch of the handler
Failed(stage) ==
    /\ processing' = FALSE
    /\ outcome' = "failed"
    /\ failed_at' = stage
    /\ errors' = errors + 1
    /\ pc' = "done"

\* the convert button is rendered and pressed; the radio rows hold one of styles
ConvertWith(styles, limit) ==
    /\ pc = "idle"
    /\ selected_history = NoHistory
    /\ uploaded_file # None
    /\ ~generation_completed
    /\ requests < limit
    /\ requests' = requests + 1
    /\ processing' = TRUE
    /\ pc' = "analyze"
    /\ style' \in styles
    /\ start_time' = now
    /\ outcome' = "running"
    /\ request_upload' = upload_id
    /\ failed_at' = ""
    /\ errors' = 0
    /\ UNCHANGED <<s3_client, store, now, generation_completed, widgets,
                   selected_history, analyzed_content, metadata_dict,
                   final_prompt, reference_prompt_with_aspect, timestamp,
                   step1_time, step3_start, step3_time, total_time, observed,
                   upload_id, completed_for, fn,
                   browsing, script, other_request>>

\* Step 1 without the extraction call: composition follows the analysis
AnalyzeWith_SkipsExtraction(responses) ==
    /\ pc = "analyze"
    /\ calls' = Append(calls, "analyze")
    /\ \/ /\ analysis_response' = [made |-> TRUE, ok |-> FALSE, text |-> <<>>]
          /\ Failed("analysis")
          /\ UNCHANGED analyzed_content
       \/ \E r \in responses :
             /\ analysis_response' = [made |-> TRUE, ok |-> TRUE, text |-> r]
             /\ analyzed_content' = Strip(r)
             /\ pc' = "compose"
             /\ UNCHANGED <<processing, outcome, failed_at, errors>>
    /\ UNCHANGED <<s3_client, store, now, generation_completed, widgets,
                   selected_history, style, metadata_dict, final_prompt,
                   reference_prompt_with_aspect, timestamp, start_time,
                   step1_time, step3_start, step3_time, total_time,
                   metadata_response, sent_prompt, attempted, wrote,
                   unreported, uploads, fn, browsing, script, other_request>>

\* Step 1: the vision call and response.text.strip()
AnalyzeWith(responses) ==
    /\ pc = "analyze"
    /\ calls' = Append(calls, "analyze")
    /\ \/ /\ analysis_response' = [made |-> TRUE, ok |-> FALSE, text |-> <<>>]
          /\ Failed("analysis")
          /\ UNCHANGED analyzed_content
       \/ \E r \in responses :
             /\ analysis_response' = [made |-> TRUE, ok |-> TRUE, text |-> r]
             /\ analyzed_content' = Strip(r)
             /\ pc' = "extract"
             /\ UNCHANGED <<processing, outcome, failed_at, errors>>
    /\ UNCHANGED <<s3_client, store, now, generation_completed, widgets,
                   selected_history, style, metadata_dict, final_prompt,
                   reference_prompt_with_aspect, timestamp, start_time,
                   step1_time, step3_start, step3_time, total_time,
                   metadata_response, sent_prompt, attempted, wrote,
                   unreported, uploads, fn,
                   browsing, script, other_request>>

\* Step 1, continued: the extraction call, the parse and the success message
ExtractWith(responses) ==
    /\ pc = "extract"
    /\ calls' = Append(calls, "extract")
    /\ \/ /\ metadata_response' = [made |-> TRUE, ok |-> FALSE, text |-> <<>>]
          /\ Failed("metadata")
          /\ UNCHANGED <<metadata_dict, step1_time>>
       \/ \E r \in responses :
             LET parsed == ParseMetadata(r) IN
             /\ metadata_response' = [made |-> TRUE, ok |-> TRUE, text |-> r]
             /\ IF HasTitle(parsed)
                THEN /\ metadata_dict' = parsed.val.v
                     /\ step1_time' = now - start_time
                     /\ pc' = "compose"
                     /\ UNCHANGED <<processing, outcome, failed_at, errors>>
                ELSE /\ Failed("metadata")
                     /\ UNCHANGED <<metadata_dict, step1_time>>
    /\ UNCHANGED <<s3_client, store, now, generation_completed, widgets,
                   selected_history, style, analyzed_content, final_prompt,
                   reference_prompt_with_aspect, timestamp, start_time,
                   step3_start, step3_time, total_time, analysis_response,
                   sent_prompt, attempted, wrote, unreported, uploads, fn,
                   browsing, script, other_request>>

\* Step 2 and the prompt part of Step 3
ComposePrompt ==
    /\ pc = "compose"
    /\ LET c == Compose(style, analyzed_content) IN
       IF c.ok
       THEN /\ final_prompt' = c.final_prompt
            /\ reference_prompt_with_aspect' = c.reference_prompt_with_aspect
            /\ step3_start' = now
            /\ pc' = "generate"
            /\ UNCHANGED <<processing, outcome, failed_at, errors>>
       ELSE /\ Failed("compose")
            /\ UNCHANGED <<final_prompt, reference_prompt_with_aspect, step3_start>>
    /\ UNCHANGED <<s3_client, store, now, generation_completed, widgets,
                   selected_history, style, analyzed_content, metadata_dict,
                   timestamp, start_time, step1_time, step3_time, total_time,
                   observed, uploads, fn,
                   browsing, script, other_request>>

\* the last two entries of a log
LastTwo(log) == IF Len(log) > 2 THEN Tail(log) ELSE log

\* what the generation call can come back with: an exception, no candidates,
\* a first candidate without inline image data, or an image
GenerationResults == {"error", "no_candidates", "no_inline_image", "image"}

\* Step 3: the generation call; with an image the timestamp is taken
Generate ==
    /\ pc = "generate"
    /\ calls' = Append(calls, "generate")
    /\ sent_prompt' = reference_prompt_with_aspect
    /\ \E g \in GenerationResults :
          IF g = "image"
          THEN /\ step3_time' = now - step3_start
               /\ total_time' = now - start_time
               /\ timestamp' = Strftime(now)
               /\ pc' = "save_original"
               /\ UNCHANGED <<processing, outcome, failed_at, errors>>
          ELSE /\ Failed("generation")
               /\ UNCHANGED <<step3_time, total_time, timestamp>>
    /\ UNCHANGED <<s3_client, store, now, generation_completed, widgets,
                   selected_history, style, analyzed_content, metadata_dict,
                   final_prompt, reference_prompt_with_aspect, start_time,
                   step1_time, step3_start, analysis_response,
                   metadata_response, attempted, wrote, unreported, uploads, fn,
                   browsing, script, other_request>>

(***************************************************************************)
(* Persistence: the four writes and the end of the handler                 *)
(***************************************************************************)
OriginalImage == [image |-> "original", of |-> uploaded_file]
GeneratedImage == [image |-> "generated", of |-> uploaded_file]
Thumbnail == [image |-> "thumbnail", of |-> uploaded_file]

\* the metadata dict the handler builds
MetadataRecord(ts, dict, sel, content, prompt, t1, t3, total) ==
    [timestamp |-> ts,
     title |-> Get(dict, TitleKey, DefaultTitle),
     description |-> Get(dict, DescriptionKey, DefaultDescription),
     tags |-> Get(dict, TagsKey, DefaultTags),
     favorite |-> FALSE,
     background |-> sel.background,
     angle |-> sel.angle,
     lighting |-> sel.lighting,
     margin |-> sel.margin,
     aspect_ratio |-> sel.aspect_ratio,
     rotation |-> sel.rotation,
     container_clean |-> sel.container_clean,
     analyzed_content |-> content,
     full_prompt |-> prompt,
     step1_time |-> t1,
     step3_time |-> t3,
     total_time |-> total]

\* the metadata record of the request
Metadata ==
    MetadataRecord(timestamp, metadata_dict, style, analyzed_content,
                   final_prompt, step1_time, step3_time, total_time)

\* save_image_to_s3 / save_metadata_to_s3 with result r: the helper reports
\* ClientError and returns False, and returns False silently with no client
Save(file, blob, r) ==
    /\ store' = IF r = "ok" THEN Put(store, Key(timestamp, file), blob) ELSE store
    /\ wrote' = IF r = "ok" THEN wrote \cup {file} ELSE wrote
    /\ unreported' = IF r = "no_client" THEN unreported \cup {file} ELSE unreported
    /\ errors' = IF r = "ClientError" THEN errors + 1 ELSE errors

\* one image write of the handler; any other exception leaves the handler
\* through its except branch
SaveImage(at, file, blob, next) ==
    /\ pc = at
    /\ attempted' = attempted \cup {file}
    /\ \E r \in WriteOutcomes :
          IF r = "Exception"
          THEN /\ Failed("persistence")
               /\ UNCHANGED <<store, wrote, unreported>>
          ELSE /\ Save(file, blob, r)
               /\ pc' = next
               /\ UNCHANGED <<processing, outcome, failed_at>>
    /\ UNCHANGED <<s3_client, now, generation_completed, widgets,
                   selected_history, locals, calls, analysis_response,
                   metadata_response, sent_prompt, uploads, fn,
                   browsing, script, other_request>>

SaveOriginal == SaveImage("save_original", "original.png", OriginalImage, "save_generated")

SaveGenerated == SaveImage("save_generated", "generated.png", GeneratedImage, "save_thumbnail")

SaveThumbnail == SaveImage("save_thumbnail", "thumbnail.png", Thumbnail, "save_metadata")

\* Completed without setting the completed flag
Completed_NoFlag ==
    /\ processing' = FALSE
    /\ generation_completed' = generation_completed
    /\ selected_history' = timestamp
    /\ outcome' = "completed"
    /\ completed_for' = [completed_for EXCEPT ![request_upload] = @ + 1]
    /\ pc' = "done"

\* the flags and the transition to the detail page after the last write
Completed ==
    /\ processing' = FALSE
    /\ generation_completed' = TRUE
    /\ selected_history' = timestamp
    /\ outcome' = "completed"
    /\ completed_for' = [completed_for EXCEPT ![request_upload] = @ + 1]
    /\ pc' = "done"

\* the metadata write and the rest of the handler
SaveMetadata ==
    /\ pc = "save_metadata"
    /\ attempted' = attempted \cup {"metadata.json"}
    /\ \E r \in WriteOutcomes :
          IF r = "Exception"
          THEN /\ Failed("persistence")
               /\ UNCHANGED <<store, wrote, unreported, generation_completed,
                              selected_history, completed_for>>
          ELSE /\ Save("metadata.json", Metadata, r)
               /\ Completed
               /\ UNCHANGED failed_at
    /\ UNCHANGED <<s3_client, now, widgets, locals, calls, analysis_response,
                   metadata_response, sent_prompt, requests, upload_id,
                   request_upload, fn,
                   browsing, script, other_request>>

\* the script run ends (st.rerun() after a completed request, the end of the
\* script otherwise); the handler's locals are gone
EndRun ==
    /\ pc = "done"
    /\ pc' = "idle"
    /\ style' = NoStyle
    /\ analyzed_content' = <<>>
    /\ metadata_dict' = EmptyDict
    /\ final_prompt' = <<>>
    /\ reference_prompt_with_aspect' = <<>>
    /\ timestamp' = NoTimestamp
    /\ start_time' = 0
    /\ step1_time' = 0
    /\ step3_start' = 0
    /\ step3_time' = 0
    /\ total_time' = 0
    /\ calls' = <<>>
    /\ analysis_response' = NoResponse
    /\ metadata_response' = NoResponse
    /\ sent_prompt' = <<>>
    /\ attempted' = {}
    /\ wrote' = {}
    /\ unreported' = {}
    /\ pages' = [pages EXCEPT ![Main] = Render(store, selected_history, FALSE)]
    /\ UNCHANGED <<s3_client, store, now, processing, generation_completed,
                   widgets, selected_history, outcome, failed_at, errors,
                   uploads, fn, other_selected, save_log,
                   older_records, history_list, script, other_request>>

\* a second passes
Tick ==
    /\ now < MaxClock
    /\ now' = now + 1
    /\ UNCHANGED <<s3_client, store, processing, generation_completed,
                   widgets, selected_history, pc, locals, outcome, failed_at,
                   observed, errors, uploads, fn,
                   browsing, script, other_request>>

(***************************************************************************)
(* The history pages: listing, detail, edit, favorite and delete.  A       *)
(* script run that reads the bucket and then writes it is two steps, so    *)
(* that runs of two sessions interleave between the read and the write.    *)
(***************************************************************************)
MaxSaves == 2          \* metadata saves of the history pages per run of the model

Selected(s) == IF s = Main THEN selected_history ELSE other_selected

Select(s, id) ==
    IF s = Main
    THEN selected_history' = id /\ UNCHANGED other_selected
    ELSE other_selected' = id /\ UNCHANGED selected_history

\* the session is between two script runs
Idle(s) == pages[s].mode = "idle" /\ (s = Main => pc = "idle")

\* the prefixes of the bucket up to the first "/"
Folders(bucket) == {k[1] : k \in DOMAIN bucket}

\* sorted(folders)
RECURSIVE Sorted(_)
Sorted(S) ==
    IF S = {} THEN <<>>
    ELSE LET m == CHOOSE x \in S : \A y \in S \ {x} : StrLess(x, y)
         IN <<m>> \o Sorted(S \ {m})

\* sorted(folders, reverse=True)
Reverse(seq) == [i \in 1..Len(seq) |-> seq[Len(seq) + 1 - i]]

Min(a, b) == IF a < b THEN a ELSE b

\* one list_objects_v2 call returns at most this many entries
S3MaxKeys == 1000

\* the CommonPrefixes of one list_objects_v2(Delimiter='/') call: the first
\* S3MaxKeys prefixes in ascending order, the older records first
CommonPrefixes(bucket, older) ==
    LET ids == Sorted(Folders(bucket))
        room == IF older >= S3MaxKeys THEN 0 ELSE S3MaxKeys - older
    IN [older |-> Min(older, S3MaxKeys), ids |-> SubSeq(ids, 1, Min(room, Len(ids)))]

ListOutcomes == IF s3_client THEN {"ok", "ClientError"} ELSE {"no_client"}

\* list_history_from_s3 with result r: the ids of the model, most recent
\* first, followed by older records
list_history_from_s3(bucket, older, r) ==
    IF r = "ok"
    THEN LET response == CommonPrefixes(bucket, older)
         IN [ids |-> Reverse(response.ids), older |-> response.older]
    ELSE [ids |-> <<>>, older |-> 0]

\* the list page (button of the sidebar, or the back button of a history page)
ListHistory(s) ==
    /\ Idle(s)
    /\ Select(s, NoHistory)
    /\ pages' = [pages EXCEPT ![s] = BlankPage]
    /\ \E r \in ListOutcomes :
          history_list' = [made |-> TRUE, result |-> r,
                           folders |-> list_history_from_s3(store, older_records, r),
                           present |-> Folders(store),
                           older_present |-> older_records]
    /\ UNCHANGED <<s3_client, store, now, processing, generation_completed,
                   widgets, pc, locals, outcome, failed_at, observed, errors,
                   uploads, fn, save_log, older_records, script, other_request>>

\* the ids a session can ask for: a button of the sidebar or of the list
\* page, or ?history=<id> in the URL
HistoryIds == {Strftime(1), Strftime(2)}

\* a history item is opened: the detail page loads its metadata
OpenHistory(s, id) ==
    /\ Idle(s)
    /\ Select(s, id)
    /\ pages' = [pages EXCEPT ![s] = Render(store, id, FALSE)]
    /\ UNCHANGED <<s3_client, store, now, processing, generation_completed,
                   widgets, pc, locals, outcome, failed_at, observed, errors,
                   uploads, fn, save_log, older_records,
                   history_list, script, other_request>>

\* the edit button of the detail page: the next run shows the edit page
EditButton(s) ==
    /\ Idle(s)
    /\ Selected(s) # NoHistory
    /\ ~pages[s].edit
    /\ get_metadata_from_s3(store, Selected(s)).found
    /\ pages' = [pages EXCEPT ![s] = Render(store, Selected(s), TRUE)]
    /\ UNCHANGED <<s3_client, store, now, processing, generation_completed,
                   widgets, selected_history, pc, locals, outcome, failed_at,
                   observed, errors, uploads, fn, other_selected,
                   save_log, older_records, history_list, script, other_request>>

\* the values the form is submitted with
EditForms ==
    [title : {<<"z">>},
     description : {<<"d">>},
     tags_str : {<<"x", ",", " ", ",", "y", " ">>},
     favorite : BOOLEAN]

\* runs that have loaded a record and have not written it yet
Pending == {s \in Sessions : pages[s].mode # "idle"}

\* a handler that is going to write loads the record first
LoadFor(s, mode, form) ==
    LET loaded == get_metadata_from_s3(store, Selected(s)) IN
    pages' = [pages EXCEPT ![s] =
                 [edit |-> pages[s].edit, metadata |-> loaded,
                  mode |-> IF loaded.found THEN mode ELSE "idle",
                  form |-> IF loaded.found THEN form ELSE NoForm]]

\* the save button of edit_form is pressed: the run loads the record
SubmitEdit(s, form) ==
    /\ Idle(s)
    /\ Selected(s) # NoHistory
    /\ pages[s].edit
    /\ pages[s].metadata.found
    /\ save_log.saves + Cardinality(Pending) < MaxSaves
    /\ LoadFor(s, "save", form)
    /\ UNCHANGED <<s3_client, store, now, processing, generation_completed,
                   widgets, selected_history, pc, locals, outcome, failed_at,
                   observed, errors, uploads, fn, other_selected,
                   save_log, older_records, history_list, script, other_request>>

\* the log keeps the last two saves; saves counts every one
Record(log, save) ==
    [saves |-> log.saves + 1, last |-> LastTwo(Append(log.last, save))]

PyStr(chars) == [t |-> "str", v |-> chars]

\* [tag.strip() for tag in edited_tags_str.split(',') if tag.strip()]
RECURSIVE StripNonEmpty(_)
StripNonEmpty(pieces) ==
    IF pieces = <<>> THEN <<>>
    ELSE LET tag == Strip(Head(pieces)) IN
         (IF tag # <<>> THEN <<PyStr(tag)>> ELSE <<>>) \o StripNonEmpty(Tail(pieces))

edited_tags(edited_tags_str) ==
    [t |-> "arr", v |-> StripNonEmpty(Split(edited_tags_str, <<",">>))]

\* the save branch building the record anew, without the prompt
Edited_DropsPrompt(metadata, form) ==
    [metadata EXCEPT !.title = PyStr(form.title),
                     !.description = PyStr(form.description),
                     !.tags = edited_tags(form.tags_str),
                     !.favorite = form.favorite,
                     !.full_prompt = <<>>]

\* the four assignments of the save branch
Edited(metadata, form) ==
    [metadata EXCEPT !.title = PyStr(form.title),
                     !.description = PyStr(form.description),
                     !.tags = edited_tags(form.tags_str),
                     !.favorite = form.favorite]

\* metadata['favorite'] = not is_favorite
Toggled(metadata) == [metadata EXCEPT !.favorite = ~metadata.favorite]

\* save_metadata_to_s3 of a history page that merges the changed fields into
\* the stored record
SaveLoaded_Merge(s, metadata, r) ==
    LET ts == Selected(s)
        key == Key(ts, "metadata.json")
        loaded == pages[s].metadata.data
        changed == {f \in DOMAIN metadata : metadata[f] # loaded[f]}
        merged == IF key \in DOMAIN store
                  THEN [f \in DOMAIN metadata |->
                           IF f \in changed THEN metadata[f] ELSE store[key][f]]
                  ELSE metadata
    IN
    /\ store' = IF r = "ok" THEN Put(store, key, merged) ELSE store
    /\ save_log' = IF r = "ok"
                   THEN Record(save_log, [by |-> s, id |-> ts,
                                          loaded |-> pages[s].metadata.data,
                                          record |-> metadata])
                   ELSE save_log
    /\ pages' = [pages EXCEPT ![s] =
                    IF r = "ok" THEN Render(store', ts, FALSE)
                    ELSE [pages[s] EXCEPT !.mode = "idle", !.form = NoForm]]

\* save_metadata_to_s3(metadata, f"{timestamp}/metadata.json") of a history
\* page with result r, and the rerun after a successful save
SaveLoaded(s, metadata, r) ==
    LET ts == Selected(s) IN
    /\ store' = IF r = "ok" THEN Put(store, Key(ts, "metadata.json"), metadata) ELSE store
    /\ save_log' = IF r = "ok"
                   THEN Record(save_log, [by |-> s, id |-> ts,
                                          loaded |-> pages[s].metadata.data,
                                          record |-> metadata])
                   ELSE save_log
    /\ pages' = [pages EXCEPT ![s] =
                    IF r = "ok" THEN Render(store', ts, FALSE)
                    ELSE [pages[s] EXCEPT !.mode = "idle", !.form = NoForm]]

\* the save branch of the edit page
SaveEdit(s, r) ==
    /\ pages[s].mode = "save"
    /\ SaveLoaded(s, Edited(pages[s].metadata.data, pages[s].form), r)
    /\ UNCHANGED <<s3_client, now, processing, generation_completed,
                   widgets, selected_history, pc, locals, outcome, failed_at,
                   observed, errors, uploads, fn, other_selected,
                   older_records, history_list, script, other_request>>

\* the favorite button of the detail page is pressed: the run loads the record
FavoriteButton(s) ==
    /\ Idle(s)
    /\ Selected(s) # NoHistory
    /\ ~pages[s].edit
    /\ pages[s].metadata.found
    /\ save_log.saves + Cardinality(Pending) < MaxSaves
    /\ LoadFor(s, "toggle", NoForm)
    /\ UNCHANGED <<s3_client, store, now, processing, generation_completed,
                   widgets, selected_history, pc, locals, outcome, failed_at,
                   observed, errors, uploads, fn, other_selected,
                   save_log, older_records, history_list, script, other_request>>

\* the branch of the favorite button
ToggleFavorite(s, r) ==
    /\ pages[s].mode = "toggle"
    /\ SaveLoaded(s, Toggled(pages[s].metadata.data), r)
    /\ UNCHANGED <<s3_client, now, processing, generation_completed,
                   widgets, selected_history, pc, locals, outcome, failed_at,
                   observed, errors, uploads, fn, other_selected,
                   older_records, history_list, script, other_request>>

\* the keys of a record in the order list_objects_v2 returns them
Contents(bucket, ts) ==
    LET names == <<"generated.png", "metadata.json", "original.png",
                   "original_thumbnail.png", "thumbnail.png">>
    IN SelectSeq(names, LAMBDA f : Key(ts, f) \in DOMAIN bucket)

Without(bucket, keys) == [k \in DOMAIN bucket \ keys |-> bucket[k]]

\* delete_history_from_s3 that deletes metadata.json only
delete_history_from_s3_MetadataOnly(bucket, ts, n) ==
    Without(bucket, {Key(ts, "metadata.json")})

\* delete_history_from_s3(timestamp) that got through n delete_object calls
delete_history_from_s3(bucket, ts, n) ==
    Without(bucket, {Key(ts, Contents(bucket, ts)[i]) : i \in 1..n})

\* the delete button of the detail page; result "ok" is a True of
\* delete_history_from_s3, "ClientError" a False
DeleteHistory(s, r) ==
    LET ts == Selected(s)
        all == Len(Contents(store, ts))
    IN
    /\ Idle(s)
    /\ ts # NoHistory
    /\ ~pages[s].edit
    /\ get_metadata_from_s3(store, ts).found
    /\ IF r = "ok"
       THEN /\ store' = delete_history_from_s3(store, ts, all)
            /\ Select(s, NoHistory)
            /\ pages' = [pages EXCEPT ![s] = BlankPage]
       ELSE /\ \E n \in 0..(all - 1) : store' = delete_history_from_s3(store, ts, n)
            /\ pages' = [pages EXCEPT ![s] = Render(store, ts, FALSE)]
            /\ UNCHANGED <<selected_history, other_selected>>
    /\ UNCHANGED <<s3_client, now, processing, generation_completed,
                   widgets, pc, locals, outcome, failed_at, observed, errors,
                   uploads, fn, save_log, older_records,
                   history_list, script, other_request>>

(***************************************************************************)
(* Spec: one request of a session, over every input of the request         *)
(***************************************************************************)
Convert == ConvertWith(RequestStyles, 1)

Analyze == AnalyzeWith(AnalysisResponses)

ExtractMetadata == ExtractWith(MetadataResponses)

Next ==
    \/ \E name \in FileNames : Upload(name)
    \/ NewImage
    \/ Convert
    \/ Analyze
    \/ ExtractMetadata
    \/ ComposePrompt
    \/ Generate
    \/ SaveOriginal
    \/ SaveGenerated
    \/ SaveThumbnail
    \/ SaveMetadata
    \/ EndRun
    \/ Tick

Spec == Init /\ [][Next]_vars

(***************************************************************************)
(* SpecSession: up to MaxRequests requests of a session, with one style    *)
(* selection and one well-formed response of each capability               *)
(***************************************************************************)
SessionStyle == StyleRow(1, container_clean_options[1])
SessionAnalysis == <<" ", "r", "i", "c", "e", "\n">>
SessionMetadata == Wrap(ObjectText(<<TitleA, DescriptionD, TagsX>>, "pretty"), JsonTag)

ConvertAgain == ConvertWith({SessionStyle}, MaxRequests)

AnalyzeAgain == AnalyzeWith({SessionAnalysis})

ExtractAgain == ExtractWith({SessionMetadata})

NextSession ==
    \/ \E name \in FileNames : Upload(name)
    \/ NewImage
    \/ ConvertAgain
    \/ AnalyzeAgain
    \/ ExtractAgain
    \/ ComposePrompt
    \/ Generate
    \/ SaveOriginal
    \/ SaveGenerated
    \/ SaveThumbnail
    \/ SaveMetadata
    \/ EndRun
    \/ Tick

SpecSession == Init /\ [][NextSession]_vars

(***************************************************************************)
(* The Prompt Composer on its own, over every selection of the radio rows  *)
(***************************************************************************)
NotApplied == [done |-> FALSE]

InitCompose ==
    /\ s3_client = TRUE
    /\ EmptyBucket
    /\ InitSession
    /\ fn_in \in [style : StyleSelections, content : AnalysisTexts]
    /\ fn_out = NotApplied

ApplyCompose ==
    /\ ~fn_out.done
    /\ fn_out' = [done |-> TRUE, prompts |-> Compose(fn_in.style, fn_in.content)]
    /\ UNCHANGED <<s3_client, store, now, processing, generation_completed,
                   widgets, selected_history, pc, locals, outcome, failed_at,
                   observed, errors, uploads, fn_in,
                   browsing, script, other_request>>

SpecCompose == InitCompose /\ [][ApplyCompose]_vars

(***************************************************************************)
(* Metadata parsing on its own, over object texts and code fences          *)
(***************************************************************************)
InitParse ==
    /\ s3_client = TRUE
    /\ EmptyBucket
    /\ InitSession
    /\ fn_in \in [J : JsonObjectTexts, tag : FenceTags]
    /\ fn_out = NotApplied

ApplyParse ==
    /\ ~fn_out.done
    /\ fn_out' = [done |-> TRUE,
                  plain |-> ParseMetadata(fn_in.J),
                  wrapped |-> ParseMetadata(Wrap(fn_in.J, fn_in.tag))]
    /\ UNCHANGED <<s3_client, store, now, processing, generation_completed,
                   widgets, selected_history, pc, locals, outcome, failed_at,
                   observed, errors, uploads, fn_in,
                   browsing, script, other_request>>

SpecParse == InitParse /\ [][ApplyParse]_vars

(***************************************************************************)
(* SpecHistory: two sessions on the history pages of a bucket that holds   *)
(* the records of earlier requests                                         *)
(***************************************************************************)
Blob(kind, name) == [image |-> kind, of |-> name]

\* the four objects a completed request wrote under id ts
StoredRecord(ts) ==
    LET content == Strip(SessionAnalysis)
        dict == ParseMetadata(SessionMetadata).val.v
        prompts == Compose(SessionStyle, content)
    IN [f \in Files |->
          CASE f = "original.png" -> Blob("original", "a.jpg")
            [] f = "generated.png" -> Blob("generated", "a.jpg")
            [] f = "thumbnail.png" -> Blob("thumbnail", "a.jpg")
            [] OTHER -> MetadataRecord(ts, dict, SessionStyle, content,
                                       prompts.final_prompt, 0, 0, 0)]

HistoryStore ==
    [k \in HistoryIds \X Files |-> StoredRecord(k[1])[k[2]]]

InitHistory ==
    /\ s3_client = TRUE
    /\ store = HistoryStore
    /\ older_records = 0
    /\ InitSession
    /\ fn_in = None
    /\ fn_out = None

NextHistory ==
    \E s \in Sessions :
        \/ \E id \in HistoryIds : OpenHistory(s, id)
        \/ EditButton(s)
        \/ \E form \in EditForms : SubmitEdit(s, form)
        \/ \E r \in WriteOutcomes : SaveEdit(s, r)
        \/ FavoriteButton(s)
        \/ \E r \in WriteOutcomes : ToggleFavorite(s, r)
        \/ DeleteHistory(s, "ok")

SpecHistory == InitHistory /\ [][NextHistory]_vars

(***************************************************************************)
(* SpecListing: the history list of a bucket that holds any of the records *)
(* and a number of older ones, with deletes                                *)
(***************************************************************************)
InitListing ==
    /\ s3_client \in BOOLEAN
    /\ \E ids \in SUBSET HistoryIds :
          store = [k \in ids \X Files |-> HistoryStore[k]]
    /\ older_records \in {0, S3MaxKeys - 1, S3MaxKeys}
    /\ InitSession
    /\ fn_in = None
    /\ fn_out = None

NextListing ==
    \E s \in Sessions :
        \/ ListHistory(s)
        \/ \E id \in HistoryIds : OpenHistory(s, id)
        \/ \E r \in {"ok", "ClientError"} : DeleteHistory(s, r)

SpecListing == InitListing /\ [][NextListing]_vars

(***************************************************************************)
(* SpecCollision: a request of the session next to the persistence stage   *)
(* of a request of a second session.  The sessions share the bucket and    *)
(* the clock and nothing else, so the second session's request is modelled *)
(* from the moment its generation call has returned an image.              *)
(***************************************************************************)
SaveStages == <<"save_original", "save_generated", "save_thumbnail", "save_metadata">>

\* the second session's upload and the analysis text of its photo
OtherFile == "c.jpg"

OtherAnalysis == <<"f", "i", "s", "h">>

\* the metadata the extraction gives the second session, and its prompt
OtherDict == ParseMetadata(SessionMetadata).val.v

OtherPrompt == Compose(SessionStyle, Strip(OtherAnalysis)).final_prompt

\* what the second session's request writes to file
OtherBlob(file) ==
    CASE file = "original.png" -> Blob("original", other_request.of)
      [] file = "generated.png" -> Blob("generated", other_request.of)
      [] file = "thumbnail.png" -> Blob("thumbnail", other_request.of)
      [] OTHER -> MetadataRecord(other_request.timestamp, OtherDict, SessionStyle,
                                 Strip(OtherAnalysis), OtherPrompt, 0, 0, 0)

\* the second session's generation call returns an image for its upload
\* name; the handler takes the timestamp
OtherGenerate(name) ==
    /\ other_request.pc = "off"
    /\ other_request' = [other_request EXCEPT !.pc = SaveStages[1],
                                              !.timestamp = Strftime(now),
                                              !.taken_at = now,
                                              !.of = name,
                                              !.outcome = "running"]
    /\ UNCHANGED <<s3_client, store, now, processing, generation_completed,
                   widgets, selected_history, pc, locals, outcome, failed_at,
                   observed, errors, uploads, fn, browsing, script>>

\* the next write of the second session's handler, with the end of the
\* handler after the metadata write or an exception
OtherSave ==
    /\ \E i \in 1..Len(SaveStages), r \in WriteOutcomes :
          /\ other_request.pc = SaveStages[i]
          /\ IF r = "Exception"
             THEN /\ other_request' = [other_request EXCEPT !.pc = "done",
                                                           !.outcome = "failed"]
                  /\ UNCHANGED store
             ELSE /\ store' = IF r = "ok"
                              THEN Put(store, Key(other_request.timestamp, WriteOrder[i]),
                                       OtherBlob(WriteOrder[i]))
                              ELSE store
                  /\ other_request' =
                        [other_request EXCEPT
                           !.wrote = IF r = "ok" THEN @ \cup {WriteOrder[i]} ELSE @,
                           !.pc = IF i = Len(SaveStages) THEN "done" ELSE SaveStages[i + 1],
                           !.outcome = IF i = Len(SaveStages) THEN "completed" ELSE @]
    /\ UNCHANGED <<s3_client, now, processing, generation_completed,
                   widgets, selected_history, pc, locals, outcome, failed_at,
                   observed, errors, uploads, fn, browsing, script>>

NextCollision ==
    \/ \E name \in FileNames : Upload(name)
    \/ ConvertAgain
    \/ AnalyzeAgain
    \/ ExtractAgain
    \/ ComposePrompt
    \/ Generate
    \/ SaveOriginal
    \/ SaveGenerated
    \/ SaveThumbnail
    \/ SaveMetadata
    \/ OtherGenerate(OtherFile)
    \/ OtherSave
    \/ Tick

SpecCollision == Init /\ [][NextCollision]_vars

(***************************************************************************)
(* The thumbnail size on its own, over image sizes around and far from the *)
(* bounding box.  Sizes are whole pixels; the library's divisions are      *)
(* written with integers.                                                  *)
(***************************************************************************)
ThumbnailBox == 400

Abs(n) == IF n < 0 THEN 0 - n ELSE n

Max(a, b) == IF a > b THEN a ELSE b

\* resize((box, box)) for an image that does not fit
ThumbnailSizes_Stretch(w, h) ==
    IF ThumbnailBox >= w /\ ThumbnailBox >= h THEN {<<w, h>>}
    ELSE {<<ThumbnailBox, ThumbnailBox>>}

\* floor or ceiling, whichever has the smaller key; with equal keys the
\* rounding of the library's floating-point division decides
Nearer(lo, hi, key_lo, key_hi) ==
    IF key_lo < key_hi THEN {lo}
    ELSE IF key_hi < key_lo THEN {hi}
    ELSE {lo, hi}

\* the sizes thumbnail.thumbnail((400, 400), LANCZOS) can give: an image
\* that fits the box keeps its size; otherwise the longer side becomes the
\* box and the other side is the floor or the ceiling of its exact value,
\* whichever is nearer to the aspect ratio w / h, and at least 1
ThumbnailSizes(w, h) ==
    IF ThumbnailBox >= w /\ ThumbnailBox >= h THEN {<<w, h>>}
    ELSE IF h >= w
    THEN LET lo == (ThumbnailBox * w) \div h
             hi == IF lo * h = ThumbnailBox * w THEN lo ELSE lo + 1
             key(n) == Abs(ThumbnailBox * w - n * h)
         IN {<<Max(x, 1), ThumbnailBox>> : x \in Nearer(lo, hi, key(lo), key(hi))}
    ELSE LET lo == (ThumbnailBox * h) \div w
             hi == IF lo * w = ThumbnailBox * h THEN lo ELSE lo + 1
             key(n) == Abs(w * n - ThumbnailBox * h)
         IN {<<ThumbnailBox, Max(y, 1)>> :
                y \in IF lo = 0 THEN {lo}
                      ELSE Nearer(lo, hi, key(lo) * hi, key(hi) * lo)}

Sides ==
    {1, 2, 3, 7, 399, 400, 401, 402, 533, 600, 799, 800, 801, 1000, 1023,
     1024, 1333, 2048, 4000}

InitThumbnail ==
    /\ s3_client = TRUE
    /\ EmptyBucket
    /\ InitSession
    /\ fn_in \in [w : Sides, h : Sides]
    /\ fn_out = NotApplied

ApplyThumbnail ==
    /\ ~fn_out.done
    /\ \E size \in ThumbnailSizes(fn_in.w, fn_in.h) :
          fn_out' = [done |-> TRUE, size |-> size]
    /\ UNCHANGED <<s3_client, store, now, processing, generation_completed,
                   widgets, selected_history, pc, locals, outcome, failed_at,
                   observed, errors, uploads, fn_in, browsing, script,
                   other_request>>

SpecThumbnail == InitThumbnail /\ [][ApplyThumbnail]_vars

(***************************************************************************)
(* generate_thumbnails.py: the batch script that adds                      *)
(* original_thumbnail.png to the records of a bucket.  script.events logs  *)
(* what the run did to each folder; script.previous_clean says that the    *)
(* run before this one ended with no error.                                *)
(***************************************************************************)
MaxRuns == 2           \* runs of the script

\* str.lower() on the answers that are typed
Lower(c) == IF c = "Y" THEN "y" ELSE IF c = "N" THEN "n" ELSE c

Answers == {"y", "Y", "n", ""}

\* list_history_folders with result r
list_history_folders(bucket, r) ==
    IF r = "ok" THEN Sorted(Folders(bucket)) ELSE <<>>

\* the script is started: the banner and the question
RunScript ==
    /\ script.pc \in {"off", "finished"}
    /\ script.runs < MaxRuns
    /\ script' = [pc |-> "ask", confirm |-> "", folders |-> <<>>,
                  stats |-> NoStats, runs |-> script.runs + 1, events |-> <<>>,
                  previous_clean |-> script.pc = "finished" /\ script.folders = <<>>
                                     /\ script.events # <<>> /\ script.stats.error = 0]
    /\ UNCHANGED <<s3_client, store, now, processing, generation_completed,
                   widgets, selected_history, pc, locals, outcome, failed_at,
                   observed, errors, uploads, fn, browsing, other_request>>

\* the answer to the question, and the listing of the folders after a yes
Confirm(answer) ==
    /\ script.pc = "ask"
    /\ \E r \in {"ok", "ClientError"} :
          LET folders == list_history_folders(store, r) IN
          script' = [script EXCEPT
                        !.confirm = answer,
                        !.folders = IF Lower(answer) # "y" THEN <<>> ELSE folders,
                        !.pc = IF Lower(answer) # "y" \/ folders = <<>>
                               THEN "finished" ELSE "process"]
    /\ UNCHANGED <<s3_client, store, now, processing, generation_completed,
                   widgets, selected_history, pc, locals, outcome, failed_at,
                   observed, errors, uploads, fn, browsing, other_request>>

\* head_object: found, or ClientError (always for a missing key)
HeadOutcomes(bucket, key) ==
    IF key \in DOMAIN bucket THEN {"found", "ClientError"} ELSE {"ClientError"}

\* check_file_exists(key) when head_object came back with head
check_file_exists(bucket, key, head) == head = "found"

\* generate_thumbnail_for_folder(folder): the result and the bucket after
\* it, for the outcomes of its two head_object calls, its get_object and
\* its upload
generate_thumbnail_for_folder(bucket, folder, head1, head2, get, put) ==
    LET original_thumbnail_key == Key(folder, "original_thumbnail.png")
        original_key == Key(folder, "original.png")
    IN
    IF check_file_exists(bucket, original_thumbnail_key, head1)
    THEN [result |-> "skip", bucket |-> bucket]
    ELSE IF ~check_file_exists(bucket, original_key, head2)
    THEN [result |-> "error", bucket |-> bucket]
    ELSE IF get # "ok"
    THEN [result |-> "error", bucket |-> bucket]
    ELSE IF put = "ok"
    THEN [result |-> "success",
          bucket |-> Put(bucket, original_thumbnail_key,
                         Blob("original_thumbnail", bucket[original_key].of))]
    ELSE [result |-> "error", bucket |-> bucket]

\* one round of the loop of main
ProcessFolder ==
    /\ script.pc = "process"
    /\ LET folder == Head(script.folders)
           original_thumbnail_key == Key(folder, "original_thumbnail.png")
           original_key == Key(folder, "original.png")
       IN \E head1 \in HeadOutcomes(store, original_thumbnail_key),
             head2 \in HeadOutcomes(store, original_key),
             get \in IF original_key \in DOMAIN store
                     THEN {"ok", "ClientError"} ELSE {"ClientError"},
             put \in {"ok", "ClientError"} :
             LET done == generate_thumbnail_for_folder(store, folder, head1, head2, get, put)
             IN /\ store' = done.bucket
                /\ script' = [script EXCEPT
                       !.folders = Tail(@),
                       !.stats = [@ EXCEPT ![done.result] = @ + 1],
                       !.events = Append(@, [folder |-> folder,
                                             existed |-> original_thumbnail_key \in DOMAIN store,
                                             result |-> done.result]),
                       !.pc = IF Tail(script.folders) = <<>> THEN "finished" ELSE "process"]
    /\ UNCHANGED <<s3_client, now, processing, generation_completed,
                   widgets, selected_history, pc, locals, outcome, failed_at,
                   observed, errors, uploads, fn, other_selected,
                   pages, save_log, older_records, history_list, other_request>>

\* a bucket in which each record may lack original.png and may have its
\* original_thumbnail.png already
BatchFiles == {"generated.png", "thumbnail.png", "metadata.json"}

InitBatch ==
    /\ s3_client = TRUE
    /\ \E without \in SUBSET HistoryIds, thumbs \in SUBSET HistoryIds :
          store = [k \in (HistoryIds \X BatchFiles)
                          \cup ((HistoryIds \ without) \X {"original.png"})
                          \cup (thumbs \X {"original_thumbnail.png"}) |->
                      IF k[2] = "original_thumbnail.png"
                      THEN Blob("original_thumbnail", "a.jpg")
                      ELSE HistoryStore[k]]
    /\ older_records = 0
    /\ InitSession
    /\ fn_in = None
    /\ fn_out = None

NextBatch ==
    \/ RunScript
    \/ \E answer \in Answers : Confirm(answer)
    \/ ProcessFolder

SpecBatch == InitBatch /\ [][NextBatch]_vars

(***************************************************************************)
(* Properties                                                              *)
(***************************************************************************)
CleanRequested == container_clean_options[2]

GenerationCalled == "generate" \in Range(calls)

\* C1: the prompt passed to the generation call contains the container
\* cleaning instruction exactly when the cleanup option of the container_clean
\* row is selected.
C1_CleanupIffRequested ==
    GenerationCalled =>
        ((CleaningHeader \in Range(sent_prompt)) <=> (style.container_clean = CleanRequested))

\* C2: the full_prompt of the metadata record written by a request is the
\* instruction that the same request passed to the generation call.
C2_FullPromptIsSentPrompt ==
    (pc = "done" /\ "metadata.json" \in wrote) =>
        store[Key(timestamp, "metadata.json")].full_prompt = sent_prompt

\* C3: a request that ends in failure has written nothing to the bucket.
C3_NoWriteWhenFailed ==
    outcome = "failed" => wrote = {}

AnalysisEmpty ==
    /\ analysis_response.made
    /\ (~analysis_response.ok \/ Strip(analysis_response.text) = <<>>)

\* C4: when the vision call errors or returns text that is empty after
\* trimming, the request fails in analysis, the extraction and generation
\* calls are not made and nothing is written; so no stored record has an
\* empty analyzed_content.
C4_EmptyAnalysisFails ==
    /\ AnalysisEmpty =>
          /\ outcome = "failed"
          /\ failed_at = "analysis"
          /\ calls = <<"analyze">>
          /\ wrote = {}
    /\ \A k \in DOMAIN store :
          k[2] = "metadata.json" => store[k].analyzed_content # <<>>

\* the extraction call has returned text
ExtractionAnswered == metadata_response.made /\ metadata_response.ok

IsObject(p) == p.ok /\ p.val.t = "obj"

Lacks(p, key) == IsObject(p) /\ key \notin DOMAIN p.val.v

FatalInExtraction ==
    /\ outcome = "failed"
    /\ failed_at = "metadata"
    /\ ~GenerationCalled
    /\ wrote = {}

\* C5 as stated: a response that is not valid JSON, or whose object lacks
\* title, description or tags, fails the request before the generation call
\* and before any write.
C5_MissingFieldFails ==
    ExtractionAnswered =>
        LET p == ParseMetadata(metadata_response.text) IN
        (~p.ok \/ Lacks(p, TitleKey) \/ Lacks(p, DescriptionKey) \/ Lacks(p, TagsKey))
        => FatalInExtraction

\* C5 as amended: a response that is not valid JSON, or whose object lacks
\* title, fails the request before the generation call and before any write;
\* an object that lacks only description or tags is accepted, and the record
\* written for it holds the default "" or [] in that field.
C5_MissingTitleFails ==
    ExtractionAnswered =>
        LET p == ParseMetadata(metadata_response.text) IN
        /\ (~p.ok \/ Lacks(p, TitleKey)) => FatalInExtraction
        /\ (IsObject(p) /\ ~Lacks(p, TitleKey)) =>
              /\ ~(outcome = "failed" /\ failed_at = "metadata")
              /\ "metadata.json" \in wrote =>
                   LET rec == store[Key(timestamp, "metadata.json")] IN
                   /\ Lacks(p, DescriptionKey) => rec.description = [t |-> "str", v |-> <<>>]
                   /\ Lacks(p, TagsKey) => rec.tags = [t |-> "arr", v |-> <<>>]

\* a response without title has failed the request
C5_Witness ==
    /\ ExtractionAnswered
    /\ Lacks(ParseMetadata(metadata_response.text), TitleKey)
    /\ FatalInExtraction
    /\ pc = "done"

\* C6: for an object text J, parsing J inside a code fence, with any tag or
\* none after the opening fence, gives what parsing J itself gives.
C6_FenceRoundTrip ==
    fn_out.done =>
        /\ fn_out.wrapped.ok = fn_out.plain.ok
        /\ fn_out.plain.ok => fn_out.wrapped.val = fn_out.plain.val

\* C7: in the generation prompt the orientation rule, the camera section,
\* the environment section, the lighting section and the contents section
\* come in this order, and the output-format clause of the selected aspect
\* ratio comes after all of them and ends the prompt.
C7_SectionOrder ==
    (fn_out.done /\ fn_out.prompts.ok) =>
        LET p == fn_out.prompts.reference_prompt_with_aspect
            n == Len(p)
        IN /\ 0 < Index(p, OrientationHeader)
           /\ Index(p, OrientationHeader) < Index(p, CameraHeader)
           /\ Index(p, CameraHeader) < Index(p, EnvironmentHeader)
           /\ Index(p, EnvironmentHeader) < Index(p, LightingHeader)
           /\ Index(p, LightingHeader) < Index(p, ContentsHeader)
           /\ Index(p, ContentsHeader) < Index(p, OutputFormatHeader)
           /\ Index(p, OutputFormatHeader) = n - 1
           /\ \A i \in 1..n :
                 p[i] \in {OrientationHeader, CameraHeader, EnvironmentHeader,
                           LightingHeader, ContentsHeader, CleaningHeader}
                 => i < n - 1

\* the end-to-end selection: white, overhead, bright studio, standard,
\* frontal, square, no cleanup, composed with a non-empty analysis
C7_Witness ==
    /\ fn_out.done
    /\ fn_out.prompts.ok
    /\ fn_in.style = [background |-> "shiro-haikei", angle |-> "maue-fukan",
                      lighting |-> "akarui-studio", margin |-> "hyoujun",
                      aspect_ratio |-> "seihoukei(1:1)", rotation |-> "shoumen-haichi",
                      container_clean |-> "hosei-nashi"]
    /\ fn_in.content # <<>>

\* C8: an upload gets at most one completed generation, and no request is
\* running for an upload whose generation has completed.
C8_OneGenerationPerUpload ==
    /\ \A u \in 1..MaxUploads : completed_for[u] <= 1
    /\ outcome = "running" => completed_for[request_upload] = 0

\* the upload whose generation completed is back on the creation page and the
\* convert button is not offered for it
C8_Witness ==
    /\ pc = "idle"
    /\ selected_history = NoHistory
    /\ uploaded_file # None
    /\ upload_id = request_upload
    /\ completed_for[request_upload] = 1
    /\ generation_completed

\* C9: after a failed request the processing flag is false and the completed
\* flag is still false.
C9_FailureReleases ==
    outcome = "failed" => (~processing /\ ~generation_completed)

\* a failed request has ended and the convert button is offered again for
\* the same upload
C9_Witness ==
    /\ outcome = "failed"
    /\ pc = "idle"
    /\ selected_history = NoHistory
    /\ uploaded_file # None
    /\ upload_id = request_upload
    /\ ~processing
    /\ ~generation_completed
    /\ requests < MaxRequests

\* C10: when a write of the request has failed, the failure was reported,
\* what was written is in the bucket, all four writes were attempted and the
\* request ended as completed.
C10_BestEffortPersistence ==
    (pc = "done" /\ attempted # wrote) =>
        /\ unreported = {}
        /\ errors >= Cardinality(attempted \ wrote)
        /\ \A f \in wrote : Key(timestamp, f) \in DOMAIN store
        /\ attempted = Files
        /\ outcome = "completed"

\* C11: a request has a timestamp id only after its generation call has
\* returned an image (never at upload or when the request starts), and the id
\* is greater, as a string, than every id the session stored in an earlier
\* clock second.
C11_TimestampAfterGeneration ==
    /\ timestamp # NoTimestamp =>
          /\ GenerationCalled
          /\ pc \in {"save_original", "save_generated", "save_thumbnail",
                      "save_metadata", "done"}
          /\ \A id \in Folders(store) : id = timestamp \/ StrLess(id, timestamp)
    /\ \A id \in Folders(store) : id = Strftime(now) \/ StrLess(id, Strftime(now))

C11_Witness ==
    /\ outcome = "completed"
    /\ pc = "done"
    /\ Key(timestamp, "metadata.json") \in DOMAIN store
    /\ \E id \in Folders(store) : StrLess(id, timestamp)

FrameFields ==
    {"timestamp", "background", "angle", "lighting", "margin", "aspect_ratio",
     "rotation", "container_clean", "analyzed_content", "full_prompt",
     "step1_time", "step3_time", "total_time"}

\* C13: an edit save or a favorite toggle on an existing record changes at
\* most title, description, tags and favorite of its metadata.json: every
\* other field of the record and every other object of the bucket, the three
\* image blobs included, is as before.
C13_EditFrame ==
    [][\A s \in Sessions : \A r \in WriteOutcomes :
          (SaveEdit(s, r) \/ ToggleFavorite(s, r)) =>
              LET key == Key(Selected(s), "metadata.json") IN
              key \in DOMAIN store =>
                  /\ DOMAIN store' = DOMAIN store
                  /\ \A k \in DOMAIN store \ {key} : store'[k] = store[k]
                  /\ \A f \in FrameFields : store'[key][f] = store[key][f]]_vars

C13_Witness ==
    /\ save_log.last # <<>>
    /\ LET last == save_log.last[Len(save_log.last)]
           key == Key(last.id, "metadata.json")
       IN /\ key \in DOMAIN store
          /\ store[key] = last.record
          /\ last.record.title # last.loaded.title
          /\ last.record.tags # last.loaded.tags
          /\ last.record.full_prompt = HistoryStore[key].full_prompt
          /\ \A f \in Files \ {"metadata.json"} :
                store[Key(last.id, f)] = HistoryStore[Key(last.id, f)]

\* the position in the log of the last save to id, 0 without one
LastSave(id) ==
    LET at == {i \in 1..Len(save_log.last) : save_log.last[i].id = id}
    IN IF at = {} THEN 0 ELSE CHOOSE i \in at : \A j \in at : j <= i

\* C14: after saves of two sessions to one record, the stored metadata.json
\* is the whole record the later save wrote (last write wins): a change the
\* earlier save made to a field the later one did not touch is lost.
C14_LastWriteWins ==
    \A id \in HistoryIds :
        LET key == Key(id, "metadata.json") IN
        (LastSave(id) # 0 /\ key \in DOMAIN store) =>
            store[key] = save_log.last[LastSave(id)].record

C14_Witness ==
    /\ Len(save_log.last) = 2
    /\ LET first == save_log.last[1]
           second == save_log.last[2]
       IN /\ first.id = second.id
          /\ first.by # second.by
          /\ first.loaded = second.loaded
          /\ first.record.favorite # first.loaded.favorite
          /\ second.record.favorite = second.loaded.favorite
          /\ second.record.title # second.loaded.title
          /\ store[Key(second.id, "metadata.json")].favorite = first.loaded.favorite

\* C15: when a request is completed the session's selected history item is
\* the request's timestamp id, and the detail page that the next script run
\* shows for it finds the record's metadata.json in the bucket.
C15_DetailFindsRecord ==
    /\ (outcome = "completed" /\ pc = "done") => selected_history = timestamp
    /\ (outcome = "completed" /\ pc = "idle" /\ selected_history # NoHistory) =>
          /\ pages[Main].metadata.found
          /\ pages[Main].metadata.data.timestamp = selected_history

\* C16: for every combination of labels the seven radio rows offer, every
\* lookup made while the two prompts are composed finds its label, so the
\* composition does not fail.
C16_LookupsTotal ==
    fn_out.done =>
        /\ FALSE \notin Range(ComposeLookups(fn_in.style))
        /\ fn_out.prompts.ok
        /\ fn_out.prompts.final_prompt # <<>>
        /\ OutputFormatHeader \in Range(fn_out.prompts.reference_prompt_with_aspect)

C16_Witness ==
    /\ fn_out.done
    /\ fn_out.prompts.ok
    /\ fn_in.style.background = background_options[5]
    /\ fn_in.style.lighting = lighting_options[3]
    /\ fn_in.style.aspect_ratio = aspect_ratio_options[3]
    /\ fn_in.style.rotation = rotation_options[2]
    /\ fn_in.style.container_clean = container_clean_options[2]

\* C17: a history listing that succeeds returns the timestamp id of every
\* record of the bucket, most recent first, however many records there are.
C17_ListingComplete ==
    (history_list.made /\ history_list.result = "ok") =>
        LET ids == history_list.folders.ids IN
        /\ Range(ids) = history_list.present
        /\ history_list.folders.older = history_list.older_present
        /\ \A i, j \in 1..Len(ids) : i < j => StrLess(ids[j], ids[i])

\* the order of the capability calls and of the writes of a request
CallOrder == <<"analyze", "extract", "generate">>


\* C18: within a request the stages run in the order analyze, extract
\* metadata, compose, generate, persist: the extraction call is made only
\* after the analysis returned, the prompts are composed only after the
\* extraction succeeded, the generation call is made only after extraction
\* and composition succeeded, the first write is attempted only after the
\* generation returned an image, and no call is made twice.
C18_StageOrder ==
    /\ \E n \in 0..Len(CallOrder) : calls = SubSeq(CallOrder, 1, n)
    /\ "extract" \in Range(calls) => (analysis_response.made /\ analysis_response.ok)
    /\ final_prompt # <<>> =>
          /\ "extract" \in Range(calls)
          /\ metadata_response.ok
          /\ TitleKey \in DOMAIN metadata_dict
    /\ GenerationCalled =>
          /\ final_prompt # <<>>
          /\ reference_prompt_with_aspect # <<>>
          /\ sent_prompt = reference_prompt_with_aspect
    /\ attempted # {} => (GenerationCalled /\ timestamp # NoTimestamp)
    /\ \E n \in 0..Len(WriteOrder) : attempted = Range(SubSeq(WriteOrder, 1, n))

C18_Witness ==
    /\ outcome = "completed"
    /\ pc = "done"
    /\ calls = CallOrder
    /\ attempted = Range(WriteOrder)
    /\ wrote = Range(WriteOrder)

\* C19: for a source image of width w and height h the thumbnail has its
\* longer side at most 400 px, and its width : height is w : h within the
\* rounding of a side to whole pixels (the side differs from its exact
\* value by less than one pixel).
C19_ThumbnailSize ==
    fn_out.done =>
        LET w == fn_in.w
            h == fn_in.h
            tw == fn_out.size[1]
            th == fn_out.size[2]
        IN /\ tw >= 1 /\ th >= 1
           /\ Max(tw, th) <= ThumbnailBox
           /\ Abs(tw * h - th * w) < Max(w, h)
           /\ (w > ThumbnailBox \/ h > ThumbnailBox) => Max(tw, th) = ThumbnailBox

C19_Witness ==
    /\ fn_out.done
    /\ fn_in.w = 1024
    /\ fn_in.h = 1333
    /\ fn_out.size = <<307, 400>>

\* C20: the batch script never overwrites a thumbnail: a folder whose
\* original_thumbnail.png exists counts as skip and its thumbnail is not
\* written; nothing is written unless the answer to the question is y; and
\* a run after a run without errors writes nothing.
C20_NeverOverwrites ==
    \A i \in 1..Len(script.events) :
        LET event == script.events[i] IN
        /\ event.existed => event.result = "skip"
        /\ event.result = "success" => Lower(script.confirm) = "y"
        /\ script.previous_clean => event.result # "success"

(***************************************************************************)
(* Two requests with one timestamp id                                      *)
(***************************************************************************)
\* what the session's request writes to file
RequestBlob(file) ==
    CASE file = "original.png" -> OriginalImage
      [] file = "generated.png" -> GeneratedImage
      [] file = "thumbnail.png" -> Thumbnail
      [] OTHER -> Metadata

\* the requests of the two sessions have taken the same id
SameId == timestamp # NoTimestamp /\ other_request.timestamp = timestamp

\* the second at which the session's request took its id
TakenAt == start_time + total_time

\* two requests have the same id exactly when they took it in the same second
SameIdIffSameSecond ==
    (timestamp # NoTimestamp /\ other_request.timestamp # NoTimestamp) =>
        (other_request.timestamp = timestamp <=> other_request.taken_at = TakenAt)

\* C21 as stated: two requests receive the same timestamp id only by taking
\* it in the same clock second, and then the store holds one record for the
\* id: once both requests have made their four writes, the four files are
\* those of one request (the later one), the other request's record being
\* overwritten.
C21_SameIdOneRecord ==
    /\ SameIdIffSameSecond
    /\ (SameId /\ wrote = Files /\ other_request.wrote = Files) =>
          \/ \A f \in Files : store[Key(timestamp, f)] = RequestBlob(f)
          \/ \A f \in Files : store[Key(timestamp, f)] = OtherBlob(f)

\* C21 amended: two requests receive the same timestamp id only by taking it
\* in the same clock second; their writes then go to the same keys, so the
\* store holds one folder for the id, and each file of the folder is what
\* one of the two requests wrote there: the one request's where only one of
\* them wrote the file, either request's where both did.
C21_SameIdSameKeys ==
    /\ SameIdIffSameSecond
    /\ SameId =>
          /\ Folders(store) \subseteq {timestamp}
          /\ \A f \in Files :
                LET k == Key(timestamp, f) IN
                /\ k \in DOMAIN store <=> f \in wrote \cup other_request.wrote
                /\ f \in wrote \ other_request.wrote => store[k] = RequestBlob(f)
                /\ f \in other_request.wrote \ wrote => store[k] = OtherBlob(f)
                /\ f \in wrote \cap other_request.wrote =>
                      store[k] = RequestBlob(f) \/ store[k] = OtherBlob(f)

\* both requests took one id and made their four writes; the folder holds
\* the second session's original image under the session's metadata
C21_Witness ==
    /\ SameId
    /\ wrote = Files /\ other_request.wrote = Files
    /\ outcome = "completed" /\ other_request.outcome = "completed"
    /\ store[Key(timestamp, "original.png")] = OtherBlob("original.png")
    /\ store[Key(timestamp, "original.png")] # RequestBlob("original.png")
    /\ store[Key(timestamp, "metadata.json")] = Metadata

(***************************************************************************)
(* Saves of the history pages after a delete                               *)
(***************************************************************************)
\* C22: once a record has been deleted successfully, no edit save or
\* favorite toggle of any session re-creates a key under its id: an id of
\* the bucket's records that has no key in the store (its record was
\* deleted) has none after any step either, so the listing does not return
\* it again.
C22_DeletedStaysDeleted ==
    [][\A id \in HistoryIds :
          id \notin Folders(store) => id \notin Folders(store')]_vars

(***************************************************************************)
(* Uploads after a completed generation                                    *)
(***************************************************************************)
\* C23: after a generation has completed in the session, every later upload
\* of a file, under a different name or under the same name again, resets
\* the completed flag, so that the convert button is offered for the newly
\* uploaded file: a step in which the uploader receives a file while the
\* completed flag is set ends with the flag reset.
C23_UploadResetsCompleted ==
    [][(upload_id' = upload_id + 1 /\ generation_completed)
          => ~generation_completed']_vars

====
